---- MODULE Spec2Model ----
(***************************************************************************)
(* A model of the cordyceps OpenAI client: the chat payload builder and    *)
(* the string codecs of src/chat/mod.rs, Response::text, and the request / *)
(* chunk pipeline of Client::send in src/client.rs.                        *)
(*                                                                         *)
(* Conventions.  An Option<T> is a sequence of length 0 (None) or 1        *)
(* (Some).  A Result is a record with a boolean field ok.  An f64 is held  *)
(* as an integer number of tenths (1.0 is 10).  A Bytes value is a         *)
(* sequence of byte values 0..255.  A panic is the state "panicked".       *)
(***************************************************************************)
EXTENDS Integers, Sequences, FiniteSets, TLC

VARIABLES
    builder,     \* the PayloadBuilder being staged (moved into build())
    calls,       \* history: the appending calls made on the builder, in order
    ncalls,      \* history: number of configuration calls made on the builder
    built,       \* Option<Result<Payload, Error>>: the value build() returned
    codec,       \* the serde exchange of one Role / Model / FinishReason value
    frame,       \* a decoded Response
    textArg,     \* the n of Response::text(n)
    textResult,  \* Option<Option<String>>: what text(n) returned
    pc,          \* position of the send() call (idle, awaiting the response,
                 \* dropped, failed) and of its stream (streaming, ended, panicked)
    requests,    \* HTTP requests issued, in order
    redirects,   \* history: the redirect responses reqwest followed, in order
    response,    \* Option: what the HTTP exchange of send() came to
    sendResult,  \* Option<Result<Stream, Error>>: what send() returned
    delivered,   \* chunks the response byte stream has handed to the pipeline
    yielded      \* items the stream returned by send() has yielded

vars == <<builder, calls, ncalls, built, codec, frame, textArg, textResult,
          pc, requests, redirects, response, sendResult, delivered, yielded>>

builderVars == <<builder, calls, ncalls, built>>
codecVars == <<codec>>
frameVars == <<frame, textArg, textResult>>
streamVars == <<pc, requests, redirects, response, sendResult, delivered, yielded>>

(***************************************************************************)
(* Bounds of the model.                                                    *)
(***************************************************************************)
MaxCalls == 3
MaxListLen == 2
MaxChoices == 2
MaxChunks == 3
MaxRedirects == 2

None == <<>>
Some(x) == <<x>>

RECURSIVE SeqsUpTo(_, _)
SeqsUpTo(S, n) ==
    IF n = 0 THEN {<<>>}
    ELSE LET shorter == SeqsUpTo(S, n - 1)
         IN  shorter \cup {Append(s, x) : s \in {t \in shorter : Len(t) = n - 1}, x \in S}

(***************************************************************************)
(* chat: Role, Model, Message                                              *)
(***************************************************************************)
Role == {"System", "User", "Assistant"}

Model == {"Gpt35Turbo", "Gpt35Turbo0301"}

FinishReason == {"Length", "Stop"}

API_URL == "https://api.openai.com/v1/chat/completions"

MessageNew(role, content) == [role |-> role, content |-> content]

MessageContents == {"x", "b"}

MessageInputs == {MessageNew("User", "x"), MessageNew("System", "b")}

MessageLists == SeqsUpTo(MessageInputs, MaxListLen)

(***************************************************************************)
(* chat: PayloadBuilder                                                    *)
(***************************************************************************)
EmptyLogitBias == [t \in {} |-> 0]

\* Mutant: the defaults a derived Default would give.
PayloadBuilderDefault_derived ==
    [model             |-> "Gpt35Turbo",
     messages          |-> <<>>,
     temperature       |-> 0,
     top_p             |-> 0,
     n                 |-> 0,
     stream            |-> FALSE,
     stop              |-> None,
     max_tokens        |-> 0,
     presence_penalty  |-> 0,
     frequency_penalty |-> 0,
     logit_bias        |-> EmptyLogitBias,
     user              |-> ""]

PayloadBuilderDefault ==
    [model             |-> "Gpt35Turbo",
     messages          |-> <<>>,
     temperature       |-> 10,
     top_p             |-> 10,
     n                 |-> 1,
     stream            |-> TRUE,
     stop              |-> None,
     max_tokens        |-> 1024,
     presence_penalty  |-> 0,
     frequency_penalty |-> 0,
     logit_bias        |-> EmptyLogitBias,
     user              |-> "Rust Openai Developer"]

\* Mutant: build() without the emptiness check.
PayloadBuilder_build_unchecked(self) == [ok |-> TRUE, payload |-> self]

PayloadBuilder_build(self) ==
    IF self.messages = <<>>
    THEN [ok |-> FALSE, err |-> "messages are not set"]
    ELSE [ok |-> TRUE,
          payload |-> [model             |-> self.model,
                       messages          |-> self.messages,
                       temperature       |-> self.temperature,
                       top_p             |-> self.top_p,
                       n                 |-> self.n,
                       stream            |-> self.stream,
                       stop              |-> self.stop,
                       max_tokens        |-> self.max_tokens,
                       presence_penalty  |-> self.presence_penalty,
                       frequency_penalty |-> self.frequency_penalty,
                       logit_bias        |-> self.logit_bias,
                       user              |-> self.user]]

PayloadBuilder_model(self, model) == [self EXCEPT !.model = model]

\* Mutant: messages(list) assigns the list instead of appending it.
PayloadBuilder_messages_replace(self, messages) == [self EXCEPT !.messages = messages]

\* messages.into_iter().for_each(|m| self.messages.push(m))
RECURSIVE PayloadBuilder_messages(_, _)
PayloadBuilder_messages(self, messages) ==
    IF messages = <<>> THEN self
    ELSE PayloadBuilder_messages(
             [self EXCEPT !.messages = Append(@, Head(messages))], Tail(messages))

PayloadBuilder_message(self, message) ==
    [self EXCEPT !.messages = Append(@, message)]

PayloadBuilder_user_message(self, content) ==
    [self EXCEPT !.messages = Append(@, MessageNew("User", content))]

PayloadBuilder_system_message(self, content) ==
    [self EXCEPT !.messages = Append(@, MessageNew("System", content))]

PayloadBuilder_assistant_message(self, content) ==
    [self EXCEPT !.messages = Append(@, MessageNew("Assistant", content))]

PayloadBuilder_temperature(self, temperature) == [self EXCEPT !.temperature = temperature]

PayloadBuilder_top_p(self, top_p) == [self EXCEPT !.top_p = top_p]

PayloadBuilder_n(self, n) == [self EXCEPT !.n = n]

PayloadBuilder_stream(self, stream) == [self EXCEPT !.stream = stream]

\* let _ = self.stop.insert(stop.into())
PayloadBuilder_stop(self, stop) == [self EXCEPT !.stop = Some(stop)]

PayloadBuilder_max_tokens(self, max_tokens) == [self EXCEPT !.max_tokens = max_tokens]

PayloadBuilder_presence_penalty(self, presence_penalty) ==
    [self EXCEPT !.presence_penalty = presence_penalty]

PayloadBuilder_frequency_penalty(self, frequency_penalty) ==
    [self EXCEPT !.frequency_penalty = frequency_penalty]

PayloadBuilder_logit_bias(self, logit_bias) == [self EXCEPT !.logit_bias = logit_bias]

PayloadBuilder_user(self, user) == [self EXCEPT !.user = user]

(***************************************************************************)
(* The builder as a state machine: Payload::builder(), then any chain of   *)
(* configuration calls, then build(), which consumes the builder.          *)
(***************************************************************************)
F64Inputs == {-5, 20}
IsizeInputs == {-1, 2}
LogitBiasInputs == {[t \in {"50256"} |-> -1000]}
UserInputs == {"u1"}
StopInputs == {"\n"}

Staging == built = None /\ ncalls < MaxCalls

\* A configuration call that appends nothing.
Configure(next) ==
    /\ Staging
    /\ builder' = next
    /\ ncalls' = ncalls + 1
    /\ UNCHANGED <<calls, built, codecVars, frameVars, streamVars>>

\* An appending call; the history records the method and its argument.
Appending(next, method, msgs, text) ==
    /\ Staging
    /\ builder' = next
    /\ ncalls' = ncalls + 1
    /\ calls' = Append(calls, [method |-> method, msgs |-> msgs, text |-> text])
    /\ UNCHANGED <<built, codecVars, frameVars, streamVars>>

CallModel == \E m \in Model : Configure(PayloadBuilder_model(builder, m))

CallMessages ==
    \E l \in MessageLists : Appending(PayloadBuilder_messages(builder, l), "messages", l, "")

CallMessage ==
    \E m \in MessageInputs :
        Appending(PayloadBuilder_message(builder, m), "message", <<m>>, "")

CallUserMessage ==
    \E c \in MessageContents :
        Appending(PayloadBuilder_user_message(builder, c), "user_message", <<>>, c)

CallSystemMessage ==
    \E c \in MessageContents :
        Appending(PayloadBuilder_system_message(builder, c), "system_message", <<>>, c)

CallAssistantMessage ==
    \E c \in MessageContents :
        Appending(PayloadBuilder_assistant_message(builder, c), "assistant_message", <<>>, c)

CallTemperature == \E v \in F64Inputs : Configure(PayloadBuilder_temperature(builder, v))

CallTopP == \E v \in F64Inputs : Configure(PayloadBuilder_top_p(builder, v))

CallN == \E v \in IsizeInputs : Configure(PayloadBuilder_n(builder, v))

CallStream == \E v \in BOOLEAN : Configure(PayloadBuilder_stream(builder, v))

CallStop == \E v \in StopInputs : Configure(PayloadBuilder_stop(builder, v))

CallMaxTokens == \E v \in IsizeInputs : Configure(PayloadBuilder_max_tokens(builder, v))

CallPresencePenalty ==
    \E v \in F64Inputs : Configure(PayloadBuilder_presence_penalty(builder, v))

CallFrequencyPenalty ==
    \E v \in F64Inputs : Configure(PayloadBuilder_frequency_penalty(builder, v))

CallLogitBias == \E v \in LogitBiasInputs : Configure(PayloadBuilder_logit_bias(builder, v))

CallUser == \E v \in UserInputs : Configure(PayloadBuilder_user(builder, v))

CallBuild ==
    /\ built = None
    /\ built' = Some(PayloadBuilder_build(builder))
    /\ UNCHANGED <<builder, calls, ncalls, codecVars, frameVars, streamVars>>

(***************************************************************************)
(* chat: the string codecs of Role, Model and FinishReason.  A JSON value  *)
(* on the wire is a record [t, s]: t is its JSON type and s its text.      *)
(***************************************************************************)
JsonString(s) == [t |-> "string", s |-> s]

\* String::deserialize(deserializer)?
StringDeserialize(json) ==
    IF json.t = "string"
    THEN [ok |-> TRUE, val |-> json.s]
    ELSE [ok |-> FALSE, err |-> [msg |-> "invalid type: expected a string", s |-> json.s]]

RoleDisplay(self) ==
    CASE self = "System"    -> "system"
      [] self = "User"      -> "user"
      [] self = "Assistant" -> "assistant"

RoleSerialize(self) == JsonString(RoleDisplay(self))

RoleDeserialize(json) ==
    LET s == StringDeserialize(json)
    IN  IF ~s.ok THEN s
        ELSE CASE s.val = "system"    -> [ok |-> TRUE, val |-> "System"]
               [] s.val = "user"      -> [ok |-> TRUE, val |-> "User"]
               [] s.val = "assistant" -> [ok |-> TRUE, val |-> "Assistant"]
               [] OTHER -> [ok |-> FALSE,
                            err |-> [msg |-> "is not a valid role", s |-> s.val]]

ModelDisplay(self) ==
    CASE self = "Gpt35Turbo"     -> "gpt-3.5-turbo"
      [] self = "Gpt35Turbo0301" -> "gpt-3.5-turbo-0301"

ModelSerialize(self) == JsonString(ModelDisplay(self))

\* Mutant: an unknown model string falls back to the baseline model.
ModelDeserialize_lenient(json) ==
    LET s == StringDeserialize(json)
    IN  IF ~s.ok THEN s
        ELSE IF s.val = "gpt-3.5-turbo-0301"
        THEN [ok |-> TRUE, val |-> "Gpt35Turbo0301"]
        ELSE [ok |-> TRUE, val |-> "Gpt35Turbo"]

ModelDeserialize(json) ==
    LET s == StringDeserialize(json)
    IN  IF ~s.ok THEN s
        ELSE CASE s.val = "gpt-3.5-turbo"      -> [ok |-> TRUE, val |-> "Gpt35Turbo"]
               [] s.val = "gpt-3.5-turbo-0301" -> [ok |-> TRUE, val |-> "Gpt35Turbo0301"]
               [] OTHER -> [ok |-> FALSE,
                            err |-> [msg |-> "is not a valid model", s |-> s.val]]

FinishReasonDeserialize(json) ==
    LET s == StringDeserialize(json)
    IN  IF ~s.ok THEN s
        ELSE CASE s.val = "length" -> [ok |-> TRUE, val |-> "Length"]
               [] s.val = "stop"   -> [ok |-> TRUE, val |-> "Stop"]
               [] OTHER -> [ok |-> FALSE,
                            err |-> [msg |-> "is not a valid finish reason", s |-> s.val]]

\* Wire values handed to the decoders: every encoding, near misses, the
\* variant names themselves, strings of the other enums, and non-strings.
StringInputs ==
    {"system", "user", "assistant", "System", "USER", "assistant ", "",
     "gpt-3.5-turbo", "gpt-3.5-turbo-0301", "gpt-3.5-turbo-0613", "gpt-4",
     "Gpt35Turbo", "length", "stop", "Stop", "Length", "content_filter", "null"}

JsonInputs ==
    {JsonString(s) : s \in StringInputs}
        \cup {[t |-> "null", s |-> "null"], [t |-> "number", s |-> "0"],
              [t |-> "bool", s |-> "true"]}

Kinds == {"Role", "Model", "FinishReason"}

Variants(kind) ==
    CASE kind = "Role" -> Role
      [] kind = "Model" -> Model
      [] kind = "FinishReason" -> FinishReason

CodecOf(kind, value, wire) ==
    [kind |-> kind, value |-> value, wire |-> wire, result |-> None]

CodecIdle == CodecOf("Role", None, None)

\* serde_json::to_value(&v) for a Role or a Model held by the caller.
SerializeRole ==
    /\ codec.kind = "Role" /\ codec.value # None /\ codec.wire = None
    /\ codec' = [codec EXCEPT !.wire = Some(RoleSerialize(codec.value[1]))]
    /\ UNCHANGED <<builderVars, frameVars, streamVars>>

SerializeModel ==
    /\ codec.kind = "Model" /\ codec.value # None /\ codec.wire = None
    /\ codec' = [codec EXCEPT !.wire = Some(ModelSerialize(codec.value[1]))]
    /\ UNCHANGED <<builderVars, frameVars, streamVars>>

\* serde_json::from_value::<T>(wire)
Deserialize(kind, result) ==
    /\ codec.kind = kind /\ codec.wire # None /\ codec.result = None
    /\ codec' = [codec EXCEPT !.result = Some(result)]
    /\ UNCHANGED <<builderVars, frameVars, streamVars>>

DeserializeRole ==
    codec.wire # None /\ Deserialize("Role", RoleDeserialize(codec.wire[1]))

DeserializeModel ==
    codec.wire # None /\ Deserialize("Model", ModelDeserialize(codec.wire[1]))

DeserializeFinishReason ==
    codec.wire # None /\ Deserialize("FinishReason", FinishReasonDeserialize(codec.wire[1]))

(***************************************************************************)
(* chat: Response, Choice, Delta and Response::text                        *)
(***************************************************************************)
ChoiceInputs ==
    {[delta |-> [content |-> c], index |-> i, finish_reason |-> None] :
        c \in {"Hello", ""}, i \in {0, 1}}

ResponseOf(choices) ==
    [id |-> "chatcmpl-1", object |-> "chat.completion.chunk", created |-> 0,
     model |-> "Gpt35Turbo", choices |-> choices]

ResponseInputs == {ResponseOf(cs) : cs \in SeqsUpTo(ChoiceInputs, MaxChoices)}

TextArgs == 0 .. (MaxChoices + 3)

\* Iterator::nth on a Vec's into_iter()
RECURSIVE IterNth(_, _)
IterNth(items, n) ==
    IF items = <<>> THEN None
    ELSE IF n = 0 THEN Some(Head(items))
    ELSE IterNth(Tail(items), n - 1)

\* Mutant: text(n) looks the choice up by its index field, not its position.
ResponseText_by_index(self, n) ==
    LET hits == {k \in 1 .. Len(self.choices) : self.choices[k].index = n}
    IN  IF hits = {} THEN None
        ELSE Some(self.choices[CHOOSE k \in hits : \A j \in hits : k <= j].delta.content)

\* self.choices.into_iter().nth(n).map(|c| c.delta.content)
ResponseText(self, n) ==
    LET c == IterNth(self.choices, n)
    IN  IF c = None THEN None ELSE Some(c[1].delta.content)

CallText ==
    /\ textResult = None
    /\ textResult' = Some(ResponseText(frame, textArg))
    /\ UNCHANGED <<frame, textArg, builderVars, codecVars, streamVars>>

(***************************************************************************)
(* client: Client::send, ChatClient::send and the stream they return       *)
(***************************************************************************)
PREFIX_LEN == 6

\* reqwest's StatusCode::is_success
IsSuccess(status) == 200 <= status /\ status < 300

StatusInputs == {200, 204, 301, 404, 429, 500}

\* What the HTTP exchange came to in the end: a connection error, or a final
\* response (a 3xx here is one reqwest does not follow: it has no Location).
HttpOutcomes ==
    {[ok |-> FALSE, err |-> "connect"]} \cup {[ok |-> TRUE, status |-> st] : st \in StatusInputs}

\* ReqwestClient::new().post(url).bearer_auth(key).json(&payload): the request
\* send() hands to reqwest.
ClientSendRequest(api_key, api_url) ==
    [method |-> "POST", url |-> api_url, bearer |-> Some(api_key), body |-> Some("payload")]

(***************************************************************************)
(* ReqwestClient::new() has reqwest's default redirect policy: inside the  *)
(* one `.send().await` a 301, 302, 303, 307 or 308 response that carries a *)
(* Location is answered with a further request, up to RedirectLimit hops.  *)
(***************************************************************************)
RedirectLimit == 10

RedirectStatusInputs == {301, 307}

LocationInputs == {"https://api.openai.com/v1/moved", "https://eu.example.com/v1"}

\* The host and port of the URLs of the model.
Origin(url) ==
    CASE url = API_URL -> "https://api.openai.com:443"
      [] url = "https://api.openai.com/v1/moved" -> "https://api.openai.com:443"
      [] url = "https://eu.example.com/v1" -> "https://eu.example.com:443"
      [] url = "http://localhost:8080/v1" -> "http://localhost:8080"

\* Policy::limited(10): the chain is refused once it is longer than the limit.
RedirectRefused(previous) == Len(previous) > RedirectLimit

\* The request reqwest issues in answer to a redirect: 301, 302 and 303 turn
\* the POST into a GET without a body, 307 and 308 repeat method and body; the
\* Authorization header is dropped when the host or port changes.
RedirectRequest(prev, status, location) ==
    [method |-> IF status \in {301, 302, 303} THEN "GET" ELSE prev.method,
     url    |-> location,
     bearer |-> IF Origin(location) = Origin(prev.url) THEN prev.bearer ELSE None,
     body   |-> IF status \in {301, 302, 303} THEN None ELSE prev.body]

\* Mutant: send() without the status check.
ClientSendResult_unchecked(resp) ==
    IF ~resp.ok THEN [ok |-> FALSE, err |-> [kind |-> "reqwest", cause |-> resp.err]]
    ELSE [ok |-> TRUE, status |-> resp.status]

\* The value send() returns for the outcome of its HTTP exchange.
ClientSendResult(resp) ==
    IF ~resp.ok THEN [ok |-> FALSE, err |-> [kind |-> "reqwest", cause |-> resp.err]]
    ELSE IF ~IsSuccess(resp.status)
    THEN [ok |-> FALSE,
          err |-> [kind |-> "Could not request openai with status code", status |-> resp.status]]
    ELSE [ok |-> TRUE, status |-> resp.status]

\* bytes.slice(begin..): Bytes::slice asserts begin <= len and panics otherwise.
BytesSlice(bytes, begin) ==
    IF begin > Len(bytes)
    THEN [panic |-> TRUE]
    ELSE [panic |-> FALSE, bytes |-> SubSeq(bytes, begin + 1, Len(bytes))]

\* Mutant: the closure yields the chunk without stripping the prefix.
FilterMapClosure_no_strip(result) == [panic |-> FALSE, item |-> Some(result)]

\* The closure given to filter_map: Some(item) to yield, or a panic.
FilterMapClosure(result) ==
    IF result.ok
    THEN LET sliced == BytesSlice(result.bytes, PREFIX_LEN)
         IN  IF sliced.panic THEN [panic |-> TRUE]
             ELSE [panic |-> FALSE, item |-> Some([ok |-> TRUE, bytes |-> sliced.bytes])]
    ELSE [panic |-> FALSE, item |-> Some(result)]

\* "", "dat", "data:", "data: ", "data: 1", "data: {}", "event:{}"
BytesInputs ==
    {<<>>,
     <<100, 97, 116>>,
     <<100, 97, 116, 97, 58>>,
     <<100, 97, 116, 97, 58, 32>>,
     <<100, 97, 116, 97, 58, 32, 49>>,
     <<100, 97, 116, 97, 58, 32, 123, 125>>,
     <<101, 118, 101, 110, 116, 58, 123, 125>>}

\* What one poll of the response byte stream can hand over.
ChunkInputs ==
    {[ok |-> TRUE, bytes |-> b] : b \in BytesInputs}
        \cup {[ok |-> FALSE, err |-> e] : e \in {"reset", "decode"}}

ClientNew(api_key, api_url) == [api_key |-> api_key, api_url |-> api_url]

\* Self(Client::new(api_key.into(), crate::chat::API_URL))
ChatClientNew(api_key) == ClientNew(api_key, API_URL)

\* send() up to its await: the request is handed to reqwest and the task is
\* suspended at `.send().await` with nothing returned yet.
ClientSend(self) ==
    /\ pc = "idle"
    /\ requests' = Append(requests, ClientSendRequest(self.api_key, self.api_url))
    /\ pc' = "awaiting"
    /\ UNCHANGED <<redirects, response, sendResult, delivered, yielded,
                   builderVars, codecVars, frameVars>>

\* Still inside `.send().await`: a redirect response arrives and reqwest
\* follows it with a further request, or refuses the chain with an error,
\* which `?` returns from send().
ClientSendRedirected ==
    /\ pc = "awaiting"
    /\ Len(redirects) < MaxRedirects
    /\ \E status \in RedirectStatusInputs, location \in LocationInputs :
          LET prev == requests[Len(requests)]
          IN  IF RedirectRefused(requests)
              THEN LET resp == [ok |-> FALSE, err |-> "too many redirects"]
                   IN  /\ response' = Some(resp)
                       /\ sendResult' = Some(ClientSendResult(resp))
                       /\ pc' = "failed"
                       /\ UNCHANGED <<requests, redirects>>
              ELSE /\ requests' = Append(requests, RedirectRequest(prev, status, location))
                   /\ redirects' = Append(redirects, [status |-> status, location |-> location])
                   /\ UNCHANGED <<pc, response, sendResult>>
    /\ UNCHANGED <<delivered, yielded, builderVars, codecVars, frameVars>>

\* send() from its await on: the exchange answers, the status is checked and
\* send() returns the error or the stream.
ClientSendResume ==
    /\ pc = "awaiting"
    /\ \E resp \in HttpOutcomes :
          LET r == ClientSendResult(resp)
          IN  /\ response' = Some(resp)
              /\ sendResult' = Some(r)
              /\ pc' = IF r.ok THEN "streaming" ELSE "failed"
    /\ UNCHANGED <<requests, redirects, delivered, yielded,
                   builderVars, codecVars, frameVars>>

\* The caller drops the send future while it is suspended at the await: the
\* request stays issued and send() never returns.
ClientSendDropped ==
    /\ pc = "awaiting"
    /\ pc' = "dropped"
    /\ UNCHANGED <<requests, redirects, response, sendResult, delivered, yielded,
                   builderVars, codecVars, frameVars>>

CallClientSend == ClientSend(ClientNew("sk-1", "http://localhost:8080/v1"))

\* ChatClient::send: self.0.send(payload).await
CallChatClientSend == ClientSend(ChatClientNew("sk-2"))

\* The caller awaits stream.next() and the byte stream hands over a chunk.
PollChunk ==
    /\ pc = "streaming"
    /\ Len(delivered) < MaxChunks
    /\ \E chunk \in ChunkInputs :
          LET r == FilterMapClosure(chunk)
          IN  /\ delivered' = Append(delivered, chunk)
              /\ IF r.panic
                 THEN pc' = "panicked" /\ UNCHANGED yielded
                 ELSE /\ pc' = pc
                      /\ yielded' = IF r.item = None THEN yielded
                                    ELSE Append(yielded, r.item[1])
    /\ UNCHANGED <<requests, redirects, response, sendResult,
                   builderVars, codecVars, frameVars>>

\* The caller awaits stream.next() and the byte stream is exhausted.
PollEnd ==
    /\ pc = "streaming"
    /\ pc' = "ended"
    /\ UNCHANGED <<requests, redirects, response, sendResult, delivered, yielded,
                   builderVars, codecVars, frameVars>>

(***************************************************************************)
(* Specifications                                                          *)
(***************************************************************************)
BuilderInit ==
    /\ builder = PayloadBuilderDefault
    /\ calls = <<>>
    /\ ncalls = 0
    /\ built = None

FrameIdle ==
    /\ frame = ResponseOf(<<>>)
    /\ textArg = 0
    /\ textResult = None

StreamInit ==
    /\ pc = "idle"
    /\ requests = <<>>
    /\ redirects = <<>>
    /\ response = None
    /\ sendResult = None
    /\ delivered = <<>>
    /\ yielded = <<>>

InitBuilder == BuilderInit /\ codec = CodecIdle /\ FrameIdle /\ StreamInit

NextBuilder ==
    \/ CallModel
    \/ CallMessages
    \/ CallMessage
    \/ CallUserMessage
    \/ CallSystemMessage
    \/ CallAssistantMessage
    \/ CallTemperature
    \/ CallTopP
    \/ CallN
    \/ CallStream
    \/ CallStop
    \/ CallMaxTokens
    \/ CallPresencePenalty
    \/ CallFrequencyPenalty
    \/ CallLogitBias
    \/ CallUser
    \/ CallBuild

SpecBuilder == InitBuilder /\ [][NextBuilder]_vars

InitCodec ==
    /\ \E kind \in Kinds :
          \/ kind # "FinishReason"
             /\ \E v \in Variants(kind) : codec = CodecOf(kind, Some(v), None)
          \/ \E json \in JsonInputs : codec = CodecOf(kind, None, Some(json))
    /\ BuilderInit /\ FrameIdle /\ StreamInit

NextCodec ==
    \/ SerializeRole
    \/ SerializeModel
    \/ DeserializeRole
    \/ DeserializeModel
    \/ DeserializeFinishReason

SpecCodec == InitCodec /\ [][NextCodec]_vars

InitFrame ==
    /\ frame \in ResponseInputs
    /\ textArg \in TextArgs
    /\ textResult = None
    /\ BuilderInit /\ codec = CodecIdle /\ StreamInit

NextFrame == CallText

SpecFrame == InitFrame /\ [][NextFrame]_vars

InitStream == StreamInit /\ BuilderInit /\ codec = CodecIdle /\ FrameIdle

NextStream ==
    \/ CallClientSend
    \/ CallChatClientSend
    \/ ClientSendRedirected
    \/ ClientSendResume
    \/ ClientSendDropped
    \/ PollChunk
    \/ PollEnd

SpecStream == InitStream /\ [][NextStream]_vars

(***************************************************************************)
(* Properties of the payload builder (SpecBuilder)                         *)
(***************************************************************************)
\* What one appending call supplies, from its method and argument.
Supplied(call) ==
    CASE call.method = "messages"          -> call.msgs
      [] call.method = "message"           -> call.msgs
      [] call.method = "user_message"      -> <<[role |-> "User", content |-> call.text]>>
      [] call.method = "system_message"    -> <<[role |-> "System", content |-> call.text]>>
      [] call.method = "assistant_message" -> <<[role |-> "Assistant", content |-> call.text]>>

RECURSIVE Concatenation(_)
Concatenation(cs) ==
    IF cs = <<>> THEN <<>> ELSE Supplied(Head(cs)) \o Concatenation(Tail(cs))

\* C1: build() fails, with the error "messages are not set", exactly when the
\* builder's message list is empty at the call; otherwise it succeeds whatever
\* the other staged values are and returns a Payload carrying every staged
\* field verbatim, so every Payload returned has at least one message.
BuildFailsExactlyWhenNoMessages ==
    built # None =>
        /\ ~built[1].ok <=> builder.messages = <<>>
        /\ ~built[1].ok => built[1] = [ok |-> FALSE, err |-> "messages are not set"]
        /\ built[1].ok =>
              /\ DOMAIN built[1].payload = DOMAIN builder
              /\ \A f \in DOMAIN builder : built[1].payload[f] = builder[f]
              /\ Len(built[1].payload.messages) >= 1

\* A build that succeeded on a builder staged with a negative n.
BuildSucceedsWithNegativeN ==
    /\ built # None
    /\ built[1].ok
    /\ builder.n = -1
    /\ built[1].payload.n = -1

\* C6: after any sequence of appending calls, interleaved with other setters,
\* the builder's message list is the concatenation, in call order, of what each
\* call supplied, and build() returns the messages in exactly that order.
MessagesAreConcatenationOfCalls ==
    /\ builder.messages = Concatenation(calls)
    /\ (built # None /\ built[1].ok) => built[1].payload.messages = Concatenation(calls)

\* A list of two, then another setter, then a convenience call, then build().
ListThenSetterThenConvenienceBuilt ==
    /\ Len(calls) = 2
    /\ ncalls = 3
    /\ calls[1].method = "messages"
    /\ Len(calls[1].msgs) = 2
    /\ calls[1].msgs[1] # calls[1].msgs[2]
    /\ calls[2].method = "assistant_message"
    /\ built # None
    /\ built[1].ok

\* C7: a fresh builder on which exactly one user_message("x") call and no other
\* configuration is made builds to the documented default Payload with
\* messages = [Message{role: User, content: "x"}].
SingleUserMessageBuildsDefaultPayload ==
    (/\ built # None
     /\ ncalls = 1
     /\ calls = <<[method |-> "user_message", msgs |-> <<>>, text |-> "x"]>>)
    => built[1] =
         [ok |-> TRUE,
          payload |-> [model             |-> "Gpt35Turbo",
                       messages          |-> <<[role |-> "User", content |-> "x"]>>,
                       temperature       |-> 10,
                       top_p             |-> 10,
                       n                 |-> 1,
                       stream            |-> TRUE,
                       stop              |-> <<>>,
                       max_tokens        |-> 1024,
                       presence_penalty  |-> 0,
                       frequency_penalty |-> 0,
                       logit_bias        |-> [t \in {} |-> 0],
                       user              |-> "Rust Openai Developer"]]

\* build() has returned for the chain Payload::builder().user_message("x").
SingleUserMessageBuilt ==
    /\ built # None
    /\ ncalls = 1
    /\ calls = <<[method |-> "user_message", msgs |-> <<>>, text |-> "x"]>>

(***************************************************************************)
(* Properties of the string codecs (SpecCodec)                             *)
(***************************************************************************)
\* The encodings of a kind: what Display writes for Role and Model, and the
\* two decode-only strings of FinishReason.
Encoding(kind, v) ==
    CASE kind = "Role" -> RoleDisplay(v)
      [] kind = "Model" -> ModelDisplay(v)
      [] kind = "FinishReason" -> IF v = "Length" THEN "length" ELSE "stop"

\* C8: for Role and Model decoding inverts encoding, decode(encode(v)) = v; for
\* Role, Model and FinishReason decoding succeeds only on the encoding of some
\* variant, and yields that variant; any other string fails to decode.
DecodeInvertsEncodeOverClosedSet ==
    codec.result # None =>
        /\ codec.value # None => codec.result[1] = [ok |-> TRUE, val |-> codec.value[1]]
        /\ codec.result[1].ok <=>
              /\ codec.wire[1].t = "string"
              /\ \E v \in Variants(codec.kind) : Encoding(codec.kind, v) = codec.wire[1].s
        /\ codec.result[1].ok =>
              /\ codec.result[1].val \in Variants(codec.kind)
              /\ Encoding(codec.kind, codec.result[1].val) = codec.wire[1].s

\* The round trip of Model::Gpt35Turbo0301.
ModelRoundTripDone ==
    /\ codec.kind = "Model"
    /\ codec.value = Some("Gpt35Turbo0301")
    /\ codec.wire = Some(JsonString("gpt-3.5-turbo-0301"))
    /\ codec.result # None

(***************************************************************************)
(* Properties of Response::text (SpecFrame)                                *)
(***************************************************************************)
\* C9: text(n) returns the delta content of the choice at position n when n is
\* less than the number of choices, and an absent result otherwise.
TextReturnsNthDeltaOrAbsent ==
    textResult # None =>
        IF textArg < Len(frame.choices)
        THEN textResult[1] = Some(frame.choices[textArg + 1].delta.content)
        ELSE textResult[1] = None

\* text(1) on a frame of two choices with different contents, whose index
\* fields do not name their positions.
TextOfSecondChoiceTaken ==
    /\ textResult # None
    /\ textArg = 1
    /\ Len(frame.choices) = 2
    /\ frame.choices[1].delta.content # frame.choices[2].delta.content
    /\ frame.choices[1].index = 1
    /\ textResult[1] = Some(frame.choices[2].delta.content)

(***************************************************************************)
(* Properties of Client::send and its stream (SpecStream)                  *)
(***************************************************************************)
\* Bytes [6..N) of a chunk of N >= 6 bytes.
AfterMarker(bytes) == [i \in 1 .. (Len(bytes) - 6) |-> bytes[i + 6]]

\* C2: for every successfully received chunk of N >= 6 bytes, the item yielded
\* for it is a successful item equal to bytes [6..N) of the chunk, whatever
\* the six discarded bytes are.
LongChunkYieldsBytesAfterMarker ==
    \A k \in 1 .. Len(delivered) :
        (delivered[k].ok /\ Len(delivered[k].bytes) >= 6) =>
            /\ k <= Len(yielded)
            /\ yielded[k] = [ok |-> TRUE, bytes |-> AfterMarker(delivered[k].bytes)]

\* A chunk "event:{}", whose first six bytes are not "data: ", yielded as "{}".
UnvalidatedMarkerStripped ==
    \E k \in 1 .. Len(yielded) :
        /\ delivered[k] = [ok |-> TRUE, bytes |-> <<101, 118, 101, 110, 116, 58, 123, 125>>]
        /\ yielded[k] = [ok |-> TRUE, bytes |-> <<123, 125>>]

\* C3: every successfully received chunk, an empty one or one shorter than the
\* marker included, results in an item being yielded, and processing it never
\* aborts the stream or the consuming task.
ShortChunksAreTolerated ==
    /\ pc # "panicked"
    /\ \A k \in 1 .. Len(delivered) : delivered[k].ok => k <= Len(yielded)

\* C4: a chunk that arrives with a transport error is yielded as that same
\* error, and every chunk delivered after it is still yielded.
ErrorChunkPassedThroughAndStreamContinues ==
    \A j \in 1 .. Len(delivered) :
        ~delivered[j].ok =>
            /\ j <= Len(yielded)
            /\ yielded[j] = delivered[j]
            /\ \A k \in (j + 1) .. Len(delivered) : k <= Len(yielded)

OneItemPerChunkInArrivalOrder ==
    /\ Len(yielded) = Len(delivered)
    /\ \A k \in 1 .. Len(yielded) :
          IF delivered[k].ok
          THEN yielded[k].ok /\ Len(yielded[k].bytes) <= Len(delivered[k].bytes)
          ELSE yielded[k] = delivered[k]
    /\ pc \in {"idle", "awaiting", "dropped", "failed", "streaming", "ended"}

====
